---- MODULE Spec2Model ----
(***************************************************************************)
(* Model of src/heredity/heredity.py: exact inference by enumeration over  *)
(* a pedigree.  Probabilities are Python floats (IEEE-754 binary64); they  *)
(* are modelled bit-exactly as m * 2^e with a 53-bit mantissa m, every     *)
(* operation rounding to nearest, ties to even.                            *)
(***************************************************************************)
EXTENDS Integers, Sequences, FiniteSets, TLC

(***************************************************************************)
(* Natural numbers of any size: little-endian sequences of limbs in        *)
(* 0..Base-1 without leading zero limbs; <<>> is 0.                        *)
(***************************************************************************)
Base == 2^14

RECURSIVE Trim(_)
Trim(a) ==
    IF a = <<>> THEN <<>>
    ELSE IF a[Len(a)] = 0 THEN Trim(SubSeq(a, 1, Len(a) - 1))
    ELSE a

RECURSIVE FromInt(_)
FromInt(n) == IF n = 0 THEN <<>> ELSE <<n % Base>> \o FromInt(n \div Base)

RECURSIVE BAddC(_, _, _)
BAddC(a, b, c) ==
    IF a = <<>> /\ b = <<>> THEN (IF c = 0 THEN <<>> ELSE <<c>>)
    ELSE LET x == IF a = <<>> THEN 0 ELSE Head(a)
             y == IF b = <<>> THEN 0 ELSE Head(b)
             s == x + y + c
         IN  <<s % Base>> \o BAddC(IF a = <<>> THEN <<>> ELSE Tail(a),
                                   IF b = <<>> THEN <<>> ELSE Tail(b),
                                   s \div Base)

BAdd(a, b) == BAddC(a, b, 0)

\* a - b - c for a >= b + c
RECURSIVE BSubC(_, _, _)
BSubC(a, b, c) ==
    IF a = <<>> THEN <<>>
    ELSE LET y == IF b = <<>> THEN 0 ELSE Head(b)
             d == Head(a) - y - c
         IN  <<IF d < 0 THEN d + Base ELSE d>>
             \o BSubC(Tail(a), IF b = <<>> THEN <<>> ELSE Tail(b),
                      IF d < 0 THEN 1 ELSE 0)

BSub(a, b) == Trim(BSubC(a, b, 0))

\* -1, 0, 1 as a < b, a = b, a > b
RECURSIVE BCmpFrom(_, _, _)
BCmpFrom(a, b, i) ==
    IF i = 0 THEN 0
    ELSE IF a[i] < b[i] THEN -1
    ELSE IF a[i] > b[i] THEN 1
    ELSE BCmpFrom(a, b, i - 1)

BCmp(a, b) ==
    IF Len(a) < Len(b) THEN -1
    ELSE IF Len(a) > Len(b) THEN 1
    ELSE BCmpFrom(a, b, Len(a))

\* a * d + c for a limb d
RECURSIVE BMulSmallC(_, _, _)
BMulSmallC(a, d, c) ==
    IF a = <<>> THEN (IF c = 0 THEN <<>> ELSE <<c>>)
    ELSE LET s == Head(a) * d + c
         IN  <<s % Base>> \o BMulSmallC(Tail(a), d, s \div Base)

BMulSmall(a, d) == IF d = 0 THEN <<>> ELSE BMulSmallC(a, d, 0)

ShiftLimbs(a, q) == IF a = <<>> THEN <<>> ELSE [i \in 1..q |-> 0] \o a

RECURSIVE BMul(_, _)
BMul(a, b) ==
    IF a = <<>> \/ b = <<>> THEN <<>>
    ELSE BAdd(BMulSmall(a, Head(b)), ShiftLimbs(BMul(a, Tail(b)), 1))

\* floor(a / d) for a limb d > 0, high limb first, r the running remainder
RECURSIVE BDivSmallFrom(_, _, _, _)
BDivSmallFrom(a, d, i, r) ==
    IF i = 0 THEN <<>>
    ELSE LET n == r * Base + a[i]
         IN  BDivSmallFrom(a, d, i - 1, n % d) \o <<n \div d>>

BDivSmall(a, d) == Trim(BDivSmallFrom(a, d, Len(a), 0))

\* the number of bits of n < 2^16
IntBitLen(n) ==
    IF n < 2^8
    THEN IF n < 2^4
         THEN (IF n < 2^2 THEN (IF n < 2 THEN n ELSE 2) ELSE (IF n < 2^3 THEN 3 ELSE 4))
         ELSE (IF n < 2^6 THEN (IF n < 2^5 THEN 5 ELSE 6) ELSE (IF n < 2^7 THEN 7 ELSE 8))
    ELSE IF n < 2^12
         THEN (IF n < 2^10 THEN (IF n < 2^9 THEN 9 ELSE 10) ELSE (IF n < 2^11 THEN 11 ELSE 12))
         ELSE (IF n < 2^14 THEN (IF n < 2^13 THEN 13 ELSE 14) ELSE (IF n < 2^15 THEN 15 ELSE 16))

LimbBits == IntBitLen(Base) - 1

BitLen(a) == IF a = <<>> THEN 0 ELSE LimbBits * (Len(a) - 1) + IntBitLen(a[Len(a)])

ShiftL(a, s) ==
    IF s = 0 THEN a
    ELSE ShiftLimbs(BMulSmall(a, 2^(s % LimbBits)), s \div LimbBits)

ShiftR(a, s) ==
    LET q == s \div LimbBits
    IN  IF s = 0 THEN a
        ELSE IF q >= Len(a) THEN <<>>
        ELSE BDivSmall(SubSeq(a, q + 1, Len(a)), 2^(s % LimbBits))

\* bit k of a, for k < BitLen(a); bit 0 is the lowest
Bit(a, k) == (a[k \div LimbBits + 1] \div 2^(k % LimbBits)) % 2

\* whether a % 2^k # 0, for k < BitLen(a)
LowNonZero(a, k) ==
    \/ \E i \in 1..(k \div LimbBits) : a[i] # 0
    \/ a[k \div LimbBits + 1] % 2^(k % LimbBits) # 0

Min(a, b) == IF a < b THEN a ELSE b

IsOdd(a) == a # <<>> /\ a[1] % 2 = 1

(***************************************************************************)
(* binary64 values >= 0: [m, e] is m * 2^e, m = <<>> (zero, e = 0) or      *)
(* BitLen(m) = Mantissa.  Exponent range and subnormals are not modelled:  *)
(* every value of a run lies far inside the normal range.                  *)
(***************************************************************************)
Mantissa == 53

Zero == [m |-> <<>>, e |-> 0]

\* q * 2^e for q of Mantissa bits, or of one more after a carry
RoundCarry(q, e) ==
    IF BitLen(q) > Mantissa THEN [m |-> ShiftR(q, 1), e |-> e + 1]
    ELSE [m |-> q, e |-> e]

\* M * 2^e with its s low bits rounded away, q the bits kept
RoundCut(M, e, s, q) ==
    RoundCarry(IF Bit(M, s - 1) = 1 /\ (LowNonZero(M, s - 1) \/ IsOdd(q))
               THEN BAdd(q, <<1>>)
               ELSE q,
               e + s)

RoundLen(M, e, L) ==
    IF L <= Mantissa
    THEN [m |-> ShiftL(M, Mantissa - L), e |-> e - (Mantissa - L)]
    ELSE RoundCut(M, e, L - Mantissa, ShiftR(M, L - Mantissa))

\* M * 2^e rounded to nearest, ties to even
Round(M, e) == IF M = <<>> THEN Zero ELSE RoundLen(M, e, BitLen(M))

Float(n) == Round(FromInt(n), 0)

FMul(x, y) == Round(BMul(x.m, y.m), x.e + y.e)

FAdd(x, y) ==
    IF x.m = <<>> THEN y
    ELSE IF y.m = <<>> THEN x
    ELSE LET e == Min(x.e, y.e)
         IN  Round(BAdd(ShiftL(x.m, x.e - e), ShiftL(y.m, y.e - e)), e)

\* x - y for x >= y
FSub(x, y) ==
    IF y.m = <<>> THEN x
    ELSE LET e == Min(x.e, y.e)
         IN  Round(BSub(ShiftL(x.m, x.e - e), ShiftL(y.m, y.e - e)), e)

\* the largest q <= qhat with q * b <= r (qhat overshoots by at most 2)
RECURSIVE Correct(_, _, _)
Correct(r, b, qhat) ==
    IF BCmp(BMulSmall(b, qhat), r) > 0 THEN Correct(r, b, qhat - 1) ELSE qhat

Limb(a, i) == IF i <= Len(a) THEN a[i] ELSE 0

PushDigit(rest, qd) == <<rest[1] \o <<qd>>, rest[2]>>

\* schoolbook division of limbs i..1 of a by b (top limb of b >= Base / 2),
\* r < b the remainder so far: <<quotient, remainder>>
RECURSIVE LongDivFrom(_, _, _, _)
LongDivDigit(a, b, i, r2, qd) ==
    PushDigit(LongDivFrom(a, b, i - 1, BSub(r2, BMulSmall(b, qd))), qd)

LongDivStep(a, b, i, r2) ==
    LongDivDigit(a, b, i, r2,
        Correct(r2, b, Min((Limb(r2, Len(b) + 1) * Base + Limb(r2, Len(b))) \div b[Len(b)],
                           Base - 1)))

LongDivFrom(a, b, i, r) ==
    IF i = 0 THEN <<<<>>, r>>
    ELSE LongDivStep(a, b, i, Trim(<<a[i]>> \o r))

LongDivNorm(a, b) == LongDivFrom(a, b, Len(a), <<>>)

LongDivScaled(a, b, s) == LongDivNorm(BMulSmall(a, s), BMulSmall(b, s))

\* <<floor(a / b), a % b>> up to a common factor of a and b, for b # 0
LongDiv(a, b) == LongDivScaled(a, b, 2^(LimbBits - IntBitLen(b[Len(b)])))

\* 2 * q, plus 1 when the division left a remainder
WithSticky(qr) == BAdd(BMulSmall(Trim(qr[1]), 2), IF qr[2] = <<>> THEN <<>> ELSE <<1>>)

GuardLimbs == Mantissa \div LimbBits + 1

\* x / y for y # 0; the quotient keeps guard bits and a sticky bit
FDiv(x, y) ==
    IF x.m = <<>> THEN Zero
    ELSE Round(WithSticky(LongDiv(ShiftLimbs(x.m, GuardLimbs), y.m)),
               x.e - y.e - GuardLimbs * LimbBits - 1)

\* the float a decimal literal a/b denotes
Dec(a, b) == FDiv(Float(a), Float(b))

(***************************************************************************)
(* heredity.py                                                             *)
(***************************************************************************)
None == "None"

PROBS ==
    [gene     |-> [g \in 0..2 |->
                      CASE g = 2 -> Dec(1, 100)
                        [] g = 1 -> Dec(3, 100)
                        [] g = 0 -> Dec(96, 100)],
     trait    |-> [g \in 0..2 |-> [t \in BOOLEAN |->
                      CASE g = 2 /\ t  -> Dec(65, 100)
                        [] g = 2 /\ ~t -> Dec(35, 100)
                        [] g = 1 /\ t  -> Dec(56, 100)
                        [] g = 1 /\ ~t -> Dec(44, 100)
                        [] g = 0 /\ t  -> Dec(1, 100)
                        [] g = 0 /\ ~t -> Dec(99, 100)]],
     mutation |-> Dec(1, 100)]

\* a dict in insertion order is a sequence of <<key, value>> entries;
\* assigning to a key that is present keeps its place
RECURSIVE DictSet(_, _, _)
DictSet(d, k, v) ==
    IF d = <<>> THEN << <<k, v>> >>
    ELSE IF Head(d)[1] = k THEN << <<k, v>> >> \o Tail(d)
    ELSE <<Head(d)>> \o DictSet(Tail(d), k, v)

RECURSIVE load_data(_)
load_data(rows) ==
    IF rows = <<>> THEN <<>>
    ELSE LET row == rows[Len(rows)]
         IN  DictSet(load_data(SubSeq(rows, 1, Len(rows) - 1)), row.name,
                     [name   |-> row.name,
                      mother |-> IF row.mother = "" THEN None ELSE row.mother,
                      father |-> IF row.father = "" THEN None ELSE row.father,
                      trait  |-> IF row.trait = "1" THEN "True"
                                 ELSE IF row.trait = "0" THEN "False"
                                 ELSE None])

Keys(d) == [i \in 1..Len(d) |-> d[i][1]]

Get(d, k) == d[CHOOSE i \in 1..Len(d) : d[i][1] = k][2]

\* itertools.combinations(s, r), in its order, each made a set
RECURSIVE combinations(_, _)
combinations(s, r) ==
    IF r = 0 THEN << {} >>
    ELSE IF Len(s) < r THEN <<>>
    ELSE LET with == combinations(Tail(s), r - 1)
         IN  [i \in 1..Len(with) |-> {Head(s)} \cup with[i]]
             \o combinations(Tail(s), r)

RECURSIVE chain(_, _)
chain(s, r) ==
    IF r > Len(s) THEN <<>> ELSE combinations(s, r) \o chain(s, r + 1)

\* s is list(s): the elements in the order the set iterates
powerset(s) == chain(s, 0)

gene_count(person, one_gene, two_genes) ==
    IF person \in two_genes THEN 2
    ELSE IF person \in one_gene THEN 1
    ELSE 0

passing_prob ==
    [g \in 0..2 |->
        CASE g = 0 -> PROBS.mutation
          [] g = 1 -> Dec(5, 10)
          [] g = 2 -> FSub(Float(1), PROBS.mutation)]

One == Float(1)

\* lines 111-119 with one of the two ways of inheriting a single copy left out
inherit_one_path(genes, pm, pf) ==
    IF genes = 2 THEN FMul(pm, pf)
    ELSE IF genes = 1 THEN FMul(pm, FSub(One, pf))
    ELSE FMul(FSub(One, pm), FSub(One, pf))

\* lines 111-119, from the parents' passing probabilities
inherit(genes, pm, pf) ==
    IF genes = 2 THEN FMul(pm, pf)
    ELSE IF genes = 1
         THEN FAdd(FMul(pm, FSub(One, pf)), FMul(FSub(One, pm), pf))
    ELSE FMul(FSub(One, pm), FSub(One, pf))

\* the factor lines 90-119 multiply in for one person
gene_factor(rec, one_gene, two_genes) ==
    IF rec.mother = None
    THEN PROBS.gene[gene_count(rec.name, one_gene, two_genes)]
    ELSE inherit(gene_count(rec.name, one_gene, two_genes),
                 passing_prob[gene_count(rec.mother, one_gene, two_genes)],
                 passing_prob[gene_count(rec.father, one_gene, two_genes)])

\* line 121 with the entry for the trait taken whatever the candidate says
trait_factor_present(rec, one_gene, two_genes, have_trait) ==
    PROBS.trait[gene_count(rec.name, one_gene, two_genes)][TRUE]

trait_factor(rec, one_gene, two_genes, have_trait) ==
    PROBS.trait[gene_count(rec.name, one_gene, two_genes)][rec.name \in have_trait]

\* the loop of lines 82-121 from entry i on: the probability so far, and for
\* the record each person visited with the two factors multiplied in
RECURSIVE joint_from(_, _, _, _, _, _)
joint_step(people, i, one_gene, two_genes, have_trait, acc, gf, tf) ==
    joint_from(people, i + 1, one_gene, two_genes, have_trait,
        [probability |-> FMul(FMul(acc.probability, gf), tf),
         visits      |-> Append(acc.visits,
                                [person |-> people[i][1], gene |-> gf, trait |-> tf])])

joint_from(people, i, one_gene, two_genes, have_trait, acc) ==
    IF i > Len(people) THEN acc
    ELSE joint_step(people, i, one_gene, two_genes, have_trait, acc,
                    gene_factor(people[i][2], one_gene, two_genes),
                    trait_factor(people[i][2], one_gene, two_genes, have_trait))

joint_run(people, one_gene, two_genes, have_trait) ==
    joint_from(people, 1, one_gene, two_genes, have_trait,
               [probability |-> One, visits |-> <<>>])

joint_probability(people, one_gene, two_genes, have_trait) ==
    joint_run(people, one_gene, two_genes, have_trait).probability

ZeroTable == [gene |-> [g \in 0..2 |-> Zero], trait |-> [t \in BOOLEAN |-> Zero]]

\* lines 133-135 with only the trait entry of people who have the trait
update_entry_true_only(person, t, genes, has, p) ==
    <<person,
      [gene  |-> [t.gene EXCEPT ![genes] = FAdd(@, p)],
       trait |-> IF has THEN [t.trait EXCEPT ![TRUE] = FAdd(@, p)] ELSE t.trait]>>

update_entry(person, t, genes, has, p) ==
    <<person,
      [gene  |-> [t.gene EXCEPT ![genes] = FAdd(@, p)],
       trait |-> [t.trait EXCEPT ![has] = FAdd(@, p)]]>>

update(probabilities, one_gene, two_genes, have_trait, p) ==
    [i \in 1..Len(probabilities) |->
        update_entry(probabilities[i][1], probabilities[i][2],
                     gene_count(probabilities[i][1], one_gene, two_genes),
                     probabilities[i][1] \in have_trait, p)]

\* sum(...values()): the gene dict iterates 2, 1, 0 and the trait dict True, False
gene_total(t) == FAdd(FAdd(FAdd(Zero, t.gene[2]), t.gene[1]), t.gene[0])

trait_total(t) == FAdd(FAdd(Zero, t.trait[TRUE]), t.trait[FALSE])

totals(probabilities) ==
    [i \in 1..Len(probabilities) |->
        [gene  |-> gene_total(probabilities[i][2]),
         trait |-> trait_total(probabilities[i][2])]]

Least(S) == IF S = {} THEN 0 ELSE CHOOSE i \in S : \A j \in S : i <= j

\* the first entry whose division raises ZeroDivisionError, 0 when none does
FirstZeroOf(tot) == Least({i \in 1..Len(tot) : tot[i].gene = Zero \/ tot[i].trait = Zero})

FirstZero(probabilities) == FirstZeroOf(totals(probabilities))

\* lines 139-146 without the loop over the trait entries
normalize_entry_genes_only(t, gt, tt, raises) ==
    [gene  |-> IF gt = Zero THEN t.gene ELSE [g \in 0..2 |-> FDiv(t.gene[g], gt)],
     trait |-> t.trait]

\* lines 139-146 for one person; a zero total raises at the first division by it
normalize_entry(t, gt, tt, raises) ==
    [gene  |-> IF gt = Zero THEN t.gene ELSE [g \in 0..2 |-> FDiv(t.gene[g], gt)],
     trait |-> IF raises THEN t.trait ELSE [b \in BOOLEAN |-> FDiv(t.trait[b], tt)]]

normalize_upto(probabilities, tot, stop) ==
    [i \in 1..Len(probabilities) |->
        IF stop # 0 /\ i > stop THEN probabilities[i]
        ELSE <<probabilities[i][1],
               normalize_entry(probabilities[i][2], tot[i].gene, tot[i].trait, i = stop)>>]

normalize_with(probabilities, tot) == normalize_upto(probabilities, tot, FirstZeroOf(tot))

\* the tables as normalize leaves them; it stops at entry FirstZero
normalize(probabilities) == normalize_with(probabilities, totals(probabilities))

(***************************************************************************)
(* main: a run on the table `rows` of data.csv                             *)
(***************************************************************************)
VARIABLES
    rows,           \* the rows of the CSV file, in file order
    people,         \* load_data's dict
    probabilities,  \* the posterior tables
    order,          \* list(names): the order in which the set names iterates
    pc,             \* where main is
    ti, oi, tj,     \* positions of the three loops of lines 33, 42, 43
    updates,        \* history: the <<have_trait, one_gene, two_genes>> update was called with
    nupdates,       \* history: the number of calls of update
    ncalls,         \* history: calls of joint_probability for the current have_trait
    last,           \* history: the last call of joint_probability and its result
    mass,           \* history: the exact sum of every p passed to update
    normalized,     \* history: how often normalize ran
    run,            \* 1, or 2 in the second run on the same table
    first           \* the tables the first run ended with

vars == <<rows, people, probabilities, order, pc, ti, oi, tj,
          updates, nupdates, ncalls, last, mass, normalized, run, first>>

loops == <<ti, oi, tj>>

history == <<updates, nupdates, ncalls, last, mass, normalized>>

runs == <<run, first>>

MaxPeople == 3

\* the largest number of (trait candidate, gene assignment) pairs a table
\* of more than two rows may leave consistent with its evidence
MaxScenarios == 250

Names == <<"Harry", "James", "Lily", "Molly", "Arthur">>

Ghost == "Ghost"

TraitCells == {"", "1", "0"}

Table(n, mo, fa, tr) ==
    [i \in 1..n |->
        [name   |-> Names[i],
         mother |-> IF i = 1 THEN mo ELSE "",
         father |-> IF i = 1 THEN fa ELSE "",
         trait  |-> tr[i]]]

\* one or two rows: the first person's parents are absent, the other row, or
\* a name no row has; every trait cell is free
SmallTables(n) ==
    {Table(n, mo, fa, tr) :
        mo \in {"", Ghost},
        fa \in {"", Ghost} \cup (IF n = 2 THEN {Names[2]} ELSE {}),
        tr \in [1..n -> TraitCells]}

\* three rows or more: the first person is a founder, the child of the third
\* and the second, or has a mother no row has or no mother at all; no trait
\* is observed, or the parents' are
FamilyTables(n) ==
    {Table(n, pa[1], pa[2], tr) :
        pa \in {<<"", "">>, <<Names[3], Names[2]>>, <<Ghost, Names[2]>>, <<"", Names[2]>>},
        tr \in {[i \in 1..n |-> ""],
                [i \in 1..n |-> IF i = 1 THEN "" ELSE IF i = 2 THEN "1" ELSE "0"]}}

Unobserved(t) == Cardinality({i \in 1..Len(t) : t[i].trait \notin {"0", "1"}})

Tables(n) ==
    IF n < 3 THEN SmallTables(n)
    ELSE {t \in FamilyTables(n) : 2^Unobserved(t) * 3^n <= MaxScenarios}

Inputs == UNION {Tables(n) : n \in 0..MaxPeople}

Range(s) == {s[i] : i \in 1..Len(s)}

Orders(S) == {s \in [1..Cardinality(S) -> S] : Range(s) = S}

RECURSIVE Restrict(_, _)
Restrict(s, S) ==
    IF s = <<>> THEN <<>>
    ELSE IF Head(s) \in S THEN <<Head(s)>> \o Restrict(Tail(s), S)
    ELSE Restrict(Tail(s), S)

names == Range(Keys(people))

\* x + y, not rounded
ExactAdd(x, y) ==
    IF x.m = <<>> THEN y
    ELSE IF y.m = <<>> THEN x
    ELSE LET e == Min(x.e, y.e)
         IN  [m |-> BAdd(ShiftL(x.m, x.e - e), ShiftL(y.m, y.e - e)), e |-> e]

NoCall == [one_gene |-> {}, two_genes |-> {}, have_trait |-> {}, p |-> Zero, visits |-> <<>>]

Init ==
    /\ rows \in Inputs
    /\ people = <<>>
    /\ probabilities = <<>>
    /\ order = <<>>
    /\ pc = "load"
    /\ ti = 0 /\ oi = 0 /\ tj = 0
    /\ updates = {}
    /\ nupdates = 0
    /\ ncalls = 0
    /\ last = NoCall
    /\ mass = Zero
    /\ normalized = 0
    /\ run = 1
    /\ first = <<>>

\* line 22
Load ==
    /\ pc = "load"
    /\ people' = load_data(rows)
    /\ pc' = "tables"
    /\ UNCHANGED <<rows, probabilities, order, loops, history, runs>>

\* lines 24-32
MakeTables ==
    /\ pc = "tables"
    /\ probabilities' = [i \in 1..Len(people) |-> <<people[i][1], ZeroTable>>]
    /\ order' \in Orders(names)
    /\ ti' = 1
    /\ pc' = "trait"
    /\ UNCHANGED <<rows, people, oi, tj, history, runs>>

have_trait == powerset(order)[ti]

\* lines 34-38 with the truth value of the recorded trait tested instead of
\* `is not None`: an observed False no longer rejects anything
fails_evidence_truthy(candidate) ==
    \E person \in names :
        /\ Get(people, person).trait = "True"
        /\ person \notin candidate

\* lines 34-38 leaving the loop after the first person
fails_evidence_first(candidate) ==
    /\ order # <<>>
    /\ Get(people, order[1]).trait # None
    /\ Get(people, order[1]).trait # (IF order[1] \in candidate THEN "True" ELSE "False")

\* lines 34-38
fails_evidence(candidate) ==
    \E person \in names :
        /\ Get(people, person).trait # None
        /\ Get(people, person).trait # (IF person \in candidate THEN "True" ELSE "False")

\* lines 39-40 without the continue: a candidate that fails the evidence
\* is scored all the same
CandidateFails_no_continue ==
    /\ pc = "trait"
    /\ ti <= Len(powerset(order))
    /\ fails_evidence(have_trait)
    /\ pc' = "genes"
    /\ oi' = 1
    /\ tj' = 1
    /\ ncalls' = 0
    /\ UNCHANGED <<rows, people, probabilities, order, ti,
                   updates, nupdates, last, mass, normalized, runs>>

\* lines 33-40, a candidate that fails the evidence
CandidateFails ==
    /\ pc = "trait"
    /\ ti <= Len(powerset(order))
    /\ fails_evidence(have_trait)
    /\ ti' = ti + 1
    /\ UNCHANGED <<rows, people, probabilities, order, pc, oi, tj, history, runs>>

\* lines 33-42, a candidate that passes
CandidatePasses ==
    /\ pc = "trait"
    /\ ti <= Len(powerset(order))
    /\ ~fails_evidence(have_trait)
    /\ pc' = "genes"
    /\ oi' = 1
    /\ tj' = 1
    /\ ncalls' = 0
    /\ UNCHANGED <<rows, people, probabilities, order, ti,
                   updates, nupdates, last, mass, normalized, runs>>

one_gene == powerset(order)[oi]

\* powerset(names - one_gene) with the difference forgotten
two_gene_sets_all == powerset(order)

\* powerset(names - one_gene); the difference iterates in the order of names
two_gene_sets == powerset(Restrict(order, names \ one_gene))

two_genes == two_gene_sets[tj]

\* lines 44-45 with r the result of joint_probability, and the loops' steps
EvaluateWith(r) ==
    /\ probabilities' = update(probabilities, one_gene, two_genes, have_trait, r.probability)
    /\ mass' = ExactAdd(mass, r.probability)
    /\ last' = [one_gene |-> one_gene, two_genes |-> two_genes,
                have_trait |-> have_trait, p |-> r.probability, visits |-> r.visits]
    /\ updates' = updates \cup {<<have_trait, one_gene, two_genes>>}
    /\ nupdates' = nupdates + 1
    /\ ncalls' = ncalls + 1
    /\ IF tj < Len(two_gene_sets)
       THEN tj' = tj + 1 /\ UNCHANGED <<oi, ti, pc>>
       ELSE IF oi < Len(powerset(order))
       THEN oi' = oi + 1 /\ tj' = 1 /\ UNCHANGED <<ti, pc>>
       ELSE ti' = ti + 1 /\ pc' = "trait" /\ UNCHANGED <<oi, tj>>
    /\ UNCHANGED <<rows, people, order, normalized, runs>>

\* lines 43-45: one pass of the innermost loop
Evaluate ==
    /\ pc = "genes"
    /\ EvaluateWith(joint_run(people, one_gene, two_genes, have_trait))

\* line 33, the loop is over
LoopEnd ==
    /\ pc = "trait"
    /\ ti > Len(powerset(order))
    /\ pc' = "normalize"
    /\ UNCHANGED <<rows, people, probabilities, order, loops, history, runs>>

\* line 47
Normalize ==
    /\ pc = "normalize"
    /\ probabilities' = normalize(probabilities)
    /\ normalized' = normalized + 1
    /\ pc' = IF FirstZero(probabilities) # 0 THEN "ZeroDivisionError" ELSE "print"
    /\ UNCHANGED <<rows, people, order, loops, updates, nupdates, ncalls, last, mass, runs>>

\* lines 49-55
Report ==
    /\ pc = "print"
    /\ pc' = "done"
    /\ UNCHANGED <<rows, people, probabilities, order, loops, history, runs>>

Next ==
    \/ Load
    \/ MakeTables
    \/ CandidateFails
    \/ CandidatePasses
    \/ Evaluate
    \/ LoopEnd
    \/ Normalize
    \/ Report

Spec == Init /\ [][Next]_vars

(***************************************************************************)
(* Two runs of main on the same table, each with an iteration order of its *)
(* own: hash randomization gives every process its own order of a set of   *)
(* strings.                                                                *)
(***************************************************************************)
WellFormed(t) ==
    \A i \in 1..Len(t) :
        /\ t[i].mother = "" <=> t[i].father = ""
        /\ \A parent \in {t[i].mother, t[i].father} \ {""} :
               \E j \in 1..Len(t) : t[j].name = parent

TwiceInputs == {t \in Inputs : WellFormed(t) /\ (Len(t) > 2 => Unobserved(t) < Len(t))}

InitTwice == Init /\ rows \in TwiceInputs

\* the process ends and main is started again on the same file
Rerun ==
    /\ pc = "done"
    /\ run = 1
    /\ run' = 2
    /\ first' = [order |-> order, probabilities |-> probabilities]
    /\ pc' = "load"
    /\ people' = <<>>
    /\ probabilities' = <<>>
    /\ order' = <<>>
    /\ ti' = 0 /\ oi' = 0 /\ tj' = 0
    /\ updates' = {}
    /\ nupdates' = 0
    /\ ncalls' = 0
    /\ last' = NoCall
    /\ mass' = Zero
    /\ normalized' = 0
    /\ UNCHANGED rows

NextTwice == Next \/ Rerun

SpecTwice == InitTwice /\ [][NextTwice]_vars

(***************************************************************************)
(* Exact comparison of values m * 2^e                                      *)
(***************************************************************************)
Exact(n) == [m |-> FromInt(n), e |-> 0]

AbsDiff(x, y) ==
    LET e == Min(x.e, y.e)
        a == ShiftL(x.m, x.e - e)
        b == ShiftL(y.m, y.e - e)
    IN  [m |-> IF BCmp(a, b) >= 0 THEN BSub(a, b) ELSE BSub(b, a), e |-> e]

Scale(x, n) == [m |-> BMul(x.m, FromInt(n)), e |-> x.e]

\* x <= y
Leq(x, y) ==
    LET e == Min(x.e, y.e)
    IN  BCmp(ShiftL(x.m, x.e - e), ShiftL(y.m, y.e - e)) <= 0

TolInv == 10^9

\* |x - y| <= 1e-9
Close(x, y) == Leq(Scale(AbsDiff(x, y), TolInv), Exact(1))

\* |x - a / b| <= 1e-9
Near(x, a, b) == Leq(Scale(AbsDiff(Scale(x, b), Exact(a)), TolInv), Exact(b))

(***************************************************************************)
(* The properties                                                          *)
(***************************************************************************)
Rec(person) == Get(people, person)

Entry(person) == Get(probabilities, person)

Observed == {person \in names : Rec(person).trait # None}

\* the trait candidate ht agrees with every observed trait
Consistent(ht) ==
    \A person \in Observed : (Rec(person).trait = "True") <=> (person \in ht)

Subsets(S) == SUBSET S

\* every <<have_trait, one_gene, two_genes>> main has to score
Scenarios ==
    {<<ht, og, tg>> : ht \in {c \in Subsets(names) : Consistent(c)},
                      og \in Subsets(names), tg \in Subsets(names)}

Scored == {u \in Scenarios : u[2] \cap u[3] = {}}

Accumulating == pc \in {"trait", "genes", "normalize"}

Finished == pc \in {"print", "done"}

\* C1: update is called only for trait candidates that agree with every
\* observed trait; so the mass an observed person has at the value that was
\* not observed is exactly zero all along, and after normalize the observed
\* value has posterior 1.0 and the other one 0.0.
EvidenceConsistency ==
    /\ \A u \in updates : Consistent(u[1])
    /\ Accumulating \/ Finished =>
           \A person \in Observed :
               Entry(person).trait[Rec(person).trait # "True"] = Zero
    /\ Finished =>
           \A person \in Observed :
               Entry(person).trait[Rec(person).trait = "True"] = One

EvidenceSeen ==
    /\ pc = "done"
    /\ \E person \in Observed, other \in Observed, third \in names \ Observed :
           /\ Rec(person).trait = "True" /\ Entry(person).trait[TRUE] = One
           /\ Rec(other).trait = "False" /\ Entry(other).trait[FALSE] = One
           /\ Entry(third).trait[TRUE] # Zero

\* a row names a parent that no row of the table describes
MissingParent ==
    \E i \in 1..Len(rows) :
        \E parent \in {rows[i].mother, rows[i].father} \ {""} :
            \A j \in 1..Len(rows) : rows[j].name # parent

\* C3: a table in which a person names a parent that has no row of its own
\* is rejected before enumeration: no joint probability is computed, no
\* table is updated and no result is reported for it.
MalformedRejected ==
    MissingParent => nupdates = 0 /\ ncalls = 0 /\ ~Finished

\* the chance that a parent with g copies passes the gene on
T(g) == CASE g = 0 -> Dec(1, 100)
          [] g = 1 -> Dec(5, 10)
          [] g = 2 -> Dec(99, 100)

\* the chance of inheriting g copies from parents passing with tm and tf
Inherited(g, tm, tf) ==
    CASE g = 2 -> FMul(tm, tf)
      [] g = 1 -> FAdd(FMul(tm, FSub(One, tf)), FMul(FSub(One, tm), tf))
      [] g = 0 -> FMul(FSub(One, tm), FSub(One, tf))

Copies(person, call) ==
    IF person \in call.two_genes THEN 2 ELSE IF person \in call.one_gene THEN 1 ELSE 0

Visit(i) == last.visits[i]

Child(i) == Rec(Visit(i).person)

\* C6: for a person with both parents recorded the gene factor is tm * tf
\* for 2 copies, tm * (1 - tf) + (1 - tm) * tf for 1 copy and
\* (1 - tm) * (1 - tf) for 0 copies, where a parent with 0, 1, 2 copies passes
\* the gene with 0.01, 0.5, 0.99; two parents with 0 copies give 2 copies
\* with 0.01 * 0.01 = 0.0001; and the factors for 0, 1 and 2 copies add up
\* to 1 whatever the parents have.
InheritanceFactor ==
    \A i \in 1..Len(last.visits) :
        Child(i).mother # None /\ Child(i).father # None =>
            LET g  == Copies(Visit(i).person, last)
                mg == Copies(Child(i).mother, last)
                fg == Copies(Child(i).father, last)
            IN  /\ Visit(i).gene = Inherited(g, T(mg), T(fg))
                /\ g = 2 /\ mg = 0 /\ fg = 0 => Visit(i).gene = Dec(1, 10000)
                /\ FAdd(FAdd(inherit(0, passing_prob[mg], passing_prob[fg]),
                             inherit(1, passing_prob[mg], passing_prob[fg])),
                        inherit(2, passing_prob[mg], passing_prob[fg])) = One

InheritedFromTwo ==
    /\ rows # <<>>
    /\ rows[1].mother = Names[3]
    /\ \E i \in 1..Len(last.visits) :
           /\ Visit(i).person = Names[1]
           /\ Copies(Names[1], last) = 1
           /\ Copies(Names[3], last) = 2
           /\ Copies(Names[2], last) = 1
           /\ Visit(i).gene = Dec(5, 10)

\* C9: joint_probability multiplies in, for every person exactly once, a
\* gene factor and the trait factor P(trait | copies); the gene factor is
\* the prior of the person's copies only if neither parent is recorded,
\* and else the chance of inheriting them from the copies the candidate
\* gives to the recorded parents (every parent named has a row).
PerPersonFactors ==
    ~MissingParent =>
    /\ last.visits # <<>> =>
           [i \in 1..Len(last.visits) |-> Visit(i).person] = Keys(people)
    /\ \A i \in 1..Len(last.visits) :
           LET g == Copies(Visit(i).person, last)
           IN  /\ Visit(i).trait = PROBS.trait[g][Visit(i).person \in last.have_trait]
               /\ Visit(i).gene =
                      IF Child(i).mother = None /\ Child(i).father = None
                      THEN PROBS.gene[g]
                      ELSE Inherited(g, T(Copies(Child(i).mother, last)),
                                        T(Copies(Child(i).father, last)))

\* the trait candidate the outer loop has just left
Left == powerset(order)[ti - 1]

LeftScored == pc = "trait" /\ ti > 1 /\ Consistent(Left)

\* C4: for every trait candidate that passes the evidence filter
\* joint_probability is called 3^n times, n the number of people; one_gene
\* and two_genes are disjoint in every call, and every way of giving each
\* person 0, 1 or 2 copies is scored exactly once.
EnumerationExact ==
    /\ \A u \in updates : u[2] \cap u[3] = {} /\ u[2] \cup u[3] \subseteq names
    /\ LeftScored =>
           /\ ncalls = 3^Cardinality(names)
           /\ ncalls = Cardinality({u \in updates : u[1] = Left})
           /\ \A f \in [names -> 0..2] :
                  <<Left, {person \in names : f[person] = 1},
                          {person \in names : f[person] = 2}>> \in updates

EnumeratedThree == LeftScored /\ ncalls = 27 /\ Observed # {}

LifecycleState ==
    /\ nupdates = 0 /\ normalized = 0 =>
           \A i \in 1..Len(probabilities) : probabilities[i][2] = ZeroTable
    /\ updates \subseteq Scored
    /\ nupdates = Cardinality(updates)
    /\ pc = "normalize" \/ Finished => updates = Scored
    /\ normalized = IF Finished THEN 1 ELSE 0

LifecycleStep ==
    /\ normalized' # normalized => pc = "normalize" /\ normalized' = 1
    /\ nupdates' # nupdates =>
           nupdates' = nupdates + 1 /\ normalized = 0 /\ updates' # updates
    /\ Finished => probabilities' = probabilities /\ nupdates' = nupdates

\* C7: every entry of the tables is zero until the first update; update is
\* called exactly once for every pair of a consistent trait candidate and a
\* gene assignment and never for an inconsistent one; normalize runs once,
\* after the last update; and nothing writes the tables after it.
Lifecycle == [][LifecycleState /\ LifecycleState' /\ LifecycleStep]_vars

LifecycleDone == pc = "done" /\ normalized = 1 /\ nupdates = 54 /\ updates = Scored

Survives ==
    /\ pc # "ZeroDivisionError"
    /\ names # {} /\ (pc = "normalize" \/ Finished) => updates # {}
    /\ last.visits # <<>> => last.p # Zero

\* C2 as stated: at least one trait candidate passes the evidence filter
\* and every joint probability is greater than 0, so normalize never
\* divides by zero; after it each person's three gene entries sum to 1 and
\* so do the two trait entries.
SumsToOne ==
    /\ Survives
    /\ Finished =>
           \A person \in names :
               /\ gene_total(Entry(person)) = One
               /\ trait_total(Entry(person)) = One

\* C2: at least one trait candidate passes the evidence filter and every
\* joint probability is greater than 0, so normalize never divides by zero;
\* after it each person's three gene entries sum to 1 within 1e-9 and so
\* do the two trait entries.
SumsToOneWithin ==
    /\ Survives
    /\ Finished =>
           \A person \in names :
               /\ Close(gene_total(Entry(person)), One)
               /\ Close(trait_total(Entry(person)), One)

SumRounded ==
    /\ pc = "done"
    /\ ~MissingParent
    /\ Observed # {}
    /\ \E person \in names :
           /\ gene_total(Entry(person)) # One
           /\ Close(gene_total(Entry(person)), One)

SingleFounder == Len(rows) = 1 /\ rows[1].mother = "" /\ rows[1].father = ""

TraitValues == IF rows[1].trait = "1" THEN {TRUE}
               ELSE IF rows[1].trait = "0" THEN {FALSE} ELSE BOOLEAN

\* prior[g] times the sum of P(trait | g) over the consistent trait values
PriorTimesLikelihood(g) ==
    FMul(PROBS.gene[g],
         IF TraitValues = BOOLEAN
         THEN FAdd(PROBS.trait[g][TRUE], PROBS.trait[g][FALSE])
         ELSE PROBS.trait[g][CHOOSE t \in TraitValues : TRUE])

Alone == probabilities[1][2]

\* C5 as stated: for a table of one person without parents the mass of g
\* copies before normalize equals prior[g] times the sum of P(trait | g)
\* over the trait values the evidence allows; with no trait observed the
\* posterior equals the prior (0.96, 0.03, 0.01) exactly; with the trait
\* observed true the masses are 0.0096, 0.0168 and 0.0065.
SingleFounderExact ==
    SingleFounder =>
        /\ pc = "normalize" =>
               \A g \in 0..2 : Alone.gene[g] = PriorTimesLikelihood(g)
        /\ Finished /\ rows[1].trait = "" =>
               \A g \in 0..2 : Alone.gene[g] = PROBS.gene[g]
        /\ pc = "normalize" /\ rows[1].trait = "1" =>
               /\ Alone.gene[0] = Dec(96, 10000)
               /\ Alone.gene[1] = Dec(168, 10000)
               /\ Alone.gene[2] = Dec(65, 10000)

\* C5: the same, every equality within 1e-9.
SingleFounderWithin ==
    SingleFounder =>
        /\ pc = "normalize" =>
               \A g \in 0..2 : Close(Alone.gene[g], PriorTimesLikelihood(g))
        /\ Finished /\ rows[1].trait = "" =>
               /\ Near(Alone.gene[0], 96, 100)
               /\ Near(Alone.gene[1], 3, 100)
               /\ Near(Alone.gene[2], 1, 100)
        /\ pc = "normalize" /\ rows[1].trait = "1" =>
               /\ Near(Alone.gene[0], 96, 10000)
               /\ Near(Alone.gene[1], 168, 10000)
               /\ Near(Alone.gene[2], 65, 10000)

FounderRounded ==
    /\ SingleFounder
    /\ pc = "done"
    /\ rows[1].trait = ""
    /\ Alone.gene[1] # PROBS.gene[1]
    /\ Near(Alone.gene[1], 3, 100)

Tab(i) == probabilities[i][2]

\* the float nearest to the sum of every p added so far
Added == Round(mass.m, mass.e)

Balanced ==
    Accumulating =>
        \A i \in 1..Len(probabilities) :
            /\ gene_total(Tab(i)) = trait_total(Tab(i))
            /\ gene_total(Tab(i)) = gene_total(Tab(1))
            /\ gene_total(Tab(i)) = Added

BalancedWithin ==
    Accumulating =>
        \A i \in 1..Len(probabilities) :
            /\ Close(gene_total(Tab(i)), trait_total(Tab(i)))
            /\ Close(gene_total(Tab(i)), gene_total(Tab(1)))
            /\ Close(gene_total(Tab(i)), mass)

\* a call of update adds its p to exactly one gene entry and exactly one
\* trait entry of every person
OneEntryEach ==
    nupdates' = nupdates + 1 =>
        \A i \in 1..Len(probabilities) :
            /\ \E g \in 0..2 :
                   /\ probabilities'[i][2].gene = [Tab(i).gene EXCEPT ![g] = FAdd(@, last'.p)]
                   /\ probabilities'[i][2].gene # Tab(i).gene
            /\ \E b \in BOOLEAN :
                   /\ probabilities'[i][2].trait = [Tab(i).trait EXCEPT ![b] = FAdd(@, last'.p)]
                   /\ probabilities'[i][2].trait # Tab(i).trait

\* (Every state in which main is accumulating has a step that leaves it, so
\* a condition on the state a step starts in holds in all of them.)
\* C10 as stated: before normalize, for every person the sum of the three
\* gene masses equals the sum of the two trait masses, is the same for
\* every person and equals the sum of every p added so far; a call of
\* update changes exactly one gene entry and one trait entry per person,
\* both by p.
MassBalance == [][Balanced /\ OneEntryEach]_vars

\* C10: the same, the sums equal within 1e-9.
MassBalanceWithin == [][BalancedWithin /\ OneEntryEach]_vars

MassRounded ==
    /\ Accumulating
    /\ ~MissingParent
    /\ nupdates > 20
    /\ \E i \in 1..Len(probabilities) :
           /\ gene_total(Tab(i)) # trait_total(Tab(i))
           /\ Close(gene_total(Tab(i)), trait_total(Tab(i)))

SecondDone == pc = "done" /\ run = 2

====
